---- MODULE Spec2Model ----
(***************************************************************************)
(* A model of the Slack Web API client core (src/client/src/lib.rs):       *)
(* the URL builders, SlackClient::send_webapi_request, open_session and    *)
(* the get/post operations of SlackClient and SlackClientSession.          *)
(*                                                                         *)
(* Strings are sequences of one-character strings, so that formatting,     *)
(* percent-encoding and URL parsing are computed character by character.   *)
(***************************************************************************)
EXTENDS Integers, Sequences, FiniteSets, TLC

VARIABLES
    u_pc,        \* URL builder harness: "start", "plain", "done"
    u_method,    \* method_relative_uri given to the builders
    u_params,    \* params given to create_url_with_params
    u_plain,     \* Uri returned by create_url
    u_with,      \* Uri returned by create_url_with_params
    creds,       \* the caller's SlackApiToken values, by owner
    sessions,    \* the SlackClientSession values opened so far (a sequence)
    opened,      \* history: for each session, the token value of the credential it was opened from
    calls,       \* the get/post calls started so far (a sequence of call frames)
    wire         \* the requests handed to connector.request, in order

vars == <<u_pc, u_method, u_params, u_plain, u_with,
          creds, sessions, opened, calls, wire>>
urlVars == <<u_pc, u_method, u_params, u_plain, u_with>>
protoVars == <<creds, sessions, opened, calls, wire>>

\* ------------------------------------------------------------ bounds
MaxParams == 2
MaxSessions == 1
MaxCalls == 1
MaxConcCalls == 2

\* ------------------------------------------------------------ values
None == [some |-> FALSE]
Some(v) == [some |-> TRUE, val |-> v]

\* Index of the first occurrence of character c in s, 0 when there is none.
RECURSIVE IndexFrom(_, _, _)
IndexFrom(s, c, i) ==
    IF i > Len(s) THEN 0
    ELSE IF s[i] = c THEN i
    ELSE IndexFrom(s, c, i + 1)

IndexOf(s, c) == IndexFrom(s, c, 1)

\* s split at every occurrence of c (empty pieces kept).
RECURSIVE SplitOn(_, _)
SplitOn(s, c) ==
    LET i == IndexOf(s, c)
    IN  IF i = 0 THEN <<s>>
        ELSE <<SubSeq(s, 1, i - 1)>> \o SplitOn(SubSeq(s, i + 1, Len(s)), c)

\* ------------------------------------------------------------ characters
HexDigits == <<"0","1","2","3","4","5","6","7","8","9","A","B","C","D","E","F">>

\* The ASCII codes of the characters the inputs are drawn from.
CharCode ==
    [c \in {" ", "#", "%", "&", "+", ".", "2", "=", "?", "B", "a", "b", "e", "r", "\n"} |->
        CASE c = "\n" -> 10
          [] c = "B" -> 66
          [] c = "e" -> 101
          [] c = "r" -> 114
          [] c = "2" -> 50
          [] c = " " -> 32
          [] c = "#" -> 35
          [] c = "%" -> 37
          [] c = "&" -> 38
          [] c = "+" -> 43
          [] c = "." -> 46
          [] c = "=" -> 61
          [] c = "?" -> 63
          [] c = "a" -> 97
          [] c = "b" -> 98]

LowerHexDigits == <<"0","1","2","3","4","5","6","7","8","9","a","b","c","d","e","f">>

\* char::to_digit(16): hexadecimal digits of either case.
IsHex(h) == \E i \in 1..16 : HexDigits[i] = h \/ LowerHexDigits[i] = h
HexVal(h) == (CHOOSE i \in 1..16 : HexDigits[i] = h \/ LowerHexDigits[i] = h) - 1

\* form_urlencoded::byte_serialize, as used by Url::parse_with_params:
\* '*', '-', '.', '_' and ASCII alphanumerics are kept, a space becomes '+',
\* every other byte becomes %XX in upper-case hexadecimal.
Unreserved == {".", "2", "a", "b"}

byte_serialize_char(c) ==
    IF c \in Unreserved THEN <<c>>
    ELSE IF c = " " THEN <<"+">>
    ELSE <<"%", HexDigits[(CharCode[c] \div 16) + 1], HexDigits[(CharCode[c] % 16) + 1]>>

RECURSIVE byte_serialize(_)
byte_serialize(s) ==
    IF s = <<>> THEN <<>>
    ELSE byte_serialize_char(Head(s)) \o byte_serialize(Tail(s))

\* ------------------------------------------------------------ URL builder
SLACK_API_URI_STR ==
    <<"h","t","t","p","s",":","/","/","s","l","a","c","k",".","c","o","m","/","a","p","i">>

\* format!("{}/{}", SLACK_API_URI_STR, method_relative_uri)
create_method_uri_path(method_relative_uri) ==
    SLACK_API_URI_STR \o <<"/">> \o method_relative_uri

\* <Uri as FromStr>::from_str on an absolute URL: the fragment is cut off at
\* the first '#', the query is what follows the first '?'. A Uri is the pair
\* of the text up to the query and the query (None when there is no '?').
parse_uri(str) ==
    LET h == IndexOf(str, "#")
        s == IF h = 0 THEN str ELSE SubSeq(str, 1, h - 1)
        q == IndexOf(s, "?")
    IN  IF q = 0 THEN [path |-> s, query |-> None]
        ELSE [path |-> SubSeq(s, 1, q - 1), query |-> Some(SubSeq(s, q + 1, Len(s)))]

\* Display of a Uri: the path, then '?' and the query when there is one.
uri_to_string(uri) ==
    IF uri.query.some THEN uri.path \o <<"?">> \o uri.query.val ELSE uri.path

\* url_str.parse().unwrap()
create_url(url_str) == parse_uri(url_str)

\* Variant: a pair with an absent value is kept, with an empty value.
url_query_params_drop_nothing(params) ==
    [i \in 1..Len(params) |->
        <<params[i][1], IF params[i][2].some THEN params[i][2].val ELSE <<>> >>]

\* params.into_iter().map(|(k, vo)| vo.map(|v| (k, v))).flatten().collect()
RECURSIVE url_query_params(_)
url_query_params(params) ==
    IF params = <<>> THEN <<>>
    ELSE IF Head(params)[2].some
         THEN <<<<Head(params)[1], Head(params)[2].val>>>> \o url_query_params(Tail(params))
         ELSE url_query_params(Tail(params))

\* Url::parse: the input split into the text before the query, the query and
\* the fragment.
url_parse(str) ==
    LET h == IndexOf(str, "#")
        s == IF h = 0 THEN str ELSE SubSeq(str, 1, h - 1)
        q == IndexOf(s, "?")
    IN  [path |-> IF q = 0 THEN s ELSE SubSeq(s, 1, q - 1),
         query |-> IF q = 0 THEN None ELSE Some(SubSeq(s, q + 1, Len(s))),
         fragment |-> IF h = 0 THEN None ELSE Some(SubSeq(str, h + 1, Len(str)))]

\* Url::query_pairs_mut: a url without a query gets an empty one (a '?' is
\* pushed onto its serialization) before any pair is appended.
query_pairs_mut(url) ==
    IF url.query.some THEN url ELSE [url EXCEPT !.query = Some(<<>>)]

\* form_urlencoded::Serializer::append_pair: '&' unless the query is still
\* empty, then the encoded name, '=', the encoded value.
append_pair(query, pair) ==
    (IF query = <<>> THEN <<>> ELSE query \o <<"&">>)
        \o byte_serialize(pair[1]) \o <<"=">> \o byte_serialize(pair[2])

RECURSIVE extend_pairs(_, _)
extend_pairs(query, pairs) ==
    IF pairs = <<>> THEN query
    ELSE extend_pairs(append_pair(query, Head(pairs)), Tail(pairs))

\* Url::as_str
url_as_str(url) ==
    url.path
        \o (IF url.query.some THEN <<"?">> \o url.query.val ELSE <<>>)
        \o (IF url.fragment.some THEN <<"#">> \o url.fragment.val ELSE <<>>)

\* Url::parse_with_params(input, iter)
parse_with_params(input, pairs) ==
    LET url == query_pairs_mut(url_parse(input))
    IN  [url EXCEPT !.query = Some(extend_pairs(url.query.val, pairs))]

\* Url::parse_with_params(url_str, url_query_params).unwrap().as_str().parse().unwrap()
create_url_with_params(url_str, params) ==
    parse_uri(url_as_str(parse_with_params(url_str, url_query_params(params))))

\* ------------------------------------------------------------ query decoding
\* form_urlencoded::parse, the decoder the round trip is stated against:
\* the query is split on '&', empty pieces are skipped, each piece is split at
\* its first '=', '+' becomes a space and %XX becomes the byte XX.
CharOfCode(n) ==
    IF \E c \in DOMAIN CharCode : CharCode[c] = n
    THEN CHOOSE c \in DOMAIN CharCode : CharCode[c] = n
    ELSE "<byte>"

RECURSIVE percent_decode(_)
percent_decode(s) ==
    IF s = <<>> THEN <<>>
    ELSE IF Head(s) = "%" /\ Len(s) >= 3 /\ IsHex(s[2]) /\ IsHex(s[3])
         THEN <<CharOfCode(16 * HexVal(s[2]) + HexVal(s[3]))>>
                  \o percent_decode(SubSeq(s, 4, Len(s)))
    ELSE <<Head(s)>> \o percent_decode(Tail(s))

decode_component(s) ==
    percent_decode([i \in 1..Len(s) |-> IF s[i] = "+" THEN " " ELSE s[i]])

decode_piece(piece) ==
    LET e == IndexOf(piece, "=")
    IN  IF e = 0 THEN <<decode_component(piece), <<>> >>
        ELSE <<decode_component(SubSeq(piece, 1, e - 1)),
               decode_component(SubSeq(piece, e + 1, Len(piece)))>>

RECURSIVE decode_pieces(_)
decode_pieces(pieces) ==
    IF pieces = <<>> THEN <<>>
    ELSE IF Head(pieces) = <<>> THEN decode_pieces(Tail(pieces))
    ELSE <<decode_piece(Head(pieces))>> \o decode_pieces(Tail(pieces))

form_urlencoded_parse(query) == decode_pieces(SplitOn(query, "&"))

\* ------------------------------------------------------------ inputs
Methods == { <<"a","b">>, <<"a",".","b">> }

ParamKeys == { <<"a">>, <<"a"," ","b">>, <<"=">> }

ParamValues ==
    { <<>>, <<"b">>, <<" ">>, <<"+">>, <<"&","a","=">>, <<"%","2","b">>, <<"#","?">> }

ParamItems == ParamKeys \X ({None} \cup {Some(v) : v \in ParamValues})

\* ------------------------------------------------------------ URL builder harness
NoUri == [path |-> <<>>, query |-> None]

InitUrl ==
    /\ u_pc = "start"
    /\ u_method \in Methods
    /\ u_params = <<>>
    /\ u_plain = NoUri
    /\ u_with = NoUri
    /\ creds = <<>>
    /\ sessions = <<>>
    /\ opened = <<>>
    /\ calls = <<>>
    /\ wire = <<>>

\* The caller extends the parameter sequence it is going to pass.
AddParam ==
    /\ u_pc = "start"
    /\ Len(u_params) < MaxParams
    /\ \E item \in ParamItems : u_params' = Append(u_params, item)
    /\ UNCHANGED <<u_pc, u_method, u_plain, u_with>>

CallCreateUrl ==
    /\ u_pc = "start"
    /\ u_plain' = create_url(create_method_uri_path(u_method))
    /\ u_pc' = "plain"
    /\ UNCHANGED <<u_method, u_params, u_with>>

CallCreateUrlWithParams ==
    /\ u_pc = "plain"
    /\ u_with' = create_url_with_params(create_method_uri_path(u_method), u_params)
    /\ u_pc' = "done"
    /\ UNCHANGED <<u_method, u_params, u_plain>>

NextUrl ==
    \/ AddParam /\ UNCHANGED protoVars
    \/ CallCreateUrl /\ UNCHANGED protoVars
    \/ CallCreateUrlWithParams /\ UNCHANGED protoVars

SpecUrl == InitUrl /\ [][NextUrl]_vars

\* ------------------------------------------------------------ credentials
\* struct SlackApiToken { value, workspace_id, scope }
SlackApiToken(value, workspace_id, scope) ==
    [value |-> value, workspace_id |-> workspace_id, scope |-> scope]

\* #[derive(Clone)] for SlackApiToken: every field is copied into a new value.
clone(token) ==
    [value |-> token.value, workspace_id |-> token.workspace_id, scope |-> token.scope]

\* The caller's credential after it went out of scope.
Dropped == [dropped |-> TRUE]

Owners == {1, 2}

\* The credentials the callers construct, and the token value each caller
\* puts in place of its own later: one that no header can carry, and the
\* other caller's.
InitialCredential(owner) ==
    IF owner = 1 THEN SlackApiToken(<<"a","2">>, Some(<<"a">>), None)
                 ELSE SlackApiToken(<<"b","2">>, None, None)

ReplacementValue(owner) == IF owner = 1 THEN <<"a","\n">> ELSE <<"a","2">>

\* ------------------------------------------------------------ requests
\* http::request::Builder: the parts collected so far, or the first error.
\* Request::get(uri)
Request_get(uri) == [method |-> "GET", uri |-> uri, headers |-> <<>>, err |-> FALSE]

\* HeaderName: header names are held in lower case.
header_name(name) ==
    CASE name = "Authorization" -> "authorization"
      [] name = "content-type" -> "content-type"

\* HeaderValue: a value may hold visible ASCII, space and tab only (the
\* characters without an entry in CharCode are letters and punctuation).
header_value_ok(value) ==
    \A i \in 1..Len(value) :
        value[i] \in DOMAIN CharCode =>
            (CharCode[value[i]] >= 32 /\ CharCode[value[i]] # 127)

\* Builder::header(name, value): an invalid value is kept as the builder's error.
header(builder, name, value) ==
    IF builder.err THEN builder
    ELSE IF header_value_ok(value)
         THEN [builder EXCEPT !.headers = Append(@, <<header_name(name), value>>)]
         ELSE [builder EXCEPT !.err = TRUE]

Ok(v) == [ok |-> TRUE, value |-> v]
Err(e) == [ok |-> FALSE, err |-> e]
Pending == [pending |-> TRUE]

\* Builder::body(body): the request, or the builder's error.
body(builder, b) ==
    IF builder.err THEN Err("http")
    ELSE Ok([method |-> builder.method, uri |-> builder.uri,
             headers |-> builder.headers, body |-> b])

Body_empty == <<>>

BEARER == <<"B","e","a","r","e","r"," ">>
APPLICATION_JSON ==
    <<"a","p","p","l","i","c","a","t","i","o","n","/","j","s","o","n">>

\* self.token of a session.
session_token(s) == sessions[s].token

\* Variant: the token alone, without the "Bearer " scheme.
setup_token_auth_header_no_scheme(s, request_builder) ==
    header(request_builder, "Authorization", session_token(s).value)

\* Variant: one token shared by all sessions.
setup_token_auth_header_first_session(s, request_builder) ==
    header(request_builder, "Authorization", BEARER \o session_token(1).value)

\* SlackClientSession::setup_token_auth_header
setup_token_auth_header(s, request_builder) ==
    LET token_header_value == BEARER \o session_token(s).value
    IN  header(request_builder, "Authorization", token_header_value)

\* serde_json::to_string(&request): the JSON text of a request object, or the
\* error its Serialize implementation raises.
serde_json_to_string(request) ==
    IF request.serializable THEN Ok(<<"json", request.text>>) ELSE Err("serialize")

\* serde_json::from_reader(http_reader): the value of a body that is JSON of
\* the response type, an error for any other body.
serde_json_from_reader(http_body) ==
    IF http_body.class = "json_of_type" THEN Ok(http_body.data) ELSE Err("decode")

\* ------------------------------------------------------------ inputs of the calls
GetInputs ==
    { << <<"a","b">>, <<>> >>,
      << <<"a",".","b">>, << << <<"a">>, Some(<<"b"," ">>) >>, << <<"b">>, None >> >> >> }

PostRequests ==
    { [serializable |-> TRUE, text |-> <<"a">>],
      [serializable |-> FALSE, text |-> <<"b">>] }

PostInputs == { << <<"a",".","b">>, r >> : r \in PostRequests }

StatusCodes == {200, 500}
BodyClasses == {"json_of_type", "json_of_other_type", "not_json"}

\* ------------------------------------------------------------ call frames
\* A call frame: which operation, on which session (0: SlackClient::get), where
\* it is suspended, the index in wire of the request it handed to the
\* connector (0: none), the response head and the buffered body it holds and
\* what it returned.
NoResponse == [none |-> TRUE]

Frame(kind, s, arg, pc, req, result) ==
    [kind |-> kind, session |-> s, arg |-> arg, pc |-> pc, req |-> req,
     http_res |-> NoResponse, http_body |-> NoResponse, result |-> result]

\* The call goes on to self.connector.request(request), or has returned the
\* error of building the request. An entry of wire names the call that handed
\* the request over.
Dispatch(kind, s, arg, built) ==
    IF built.ok
    THEN /\ wire' = Append(wire, [call |-> Len(calls) + 1, request |-> built.value])
         /\ calls' = Append(calls,
                Frame(kind, s, arg, "awaiting_response", Len(wire) + 1, Pending))
    ELSE /\ wire' = wire
         /\ calls' = Append(calls, Frame(kind, s, arg, "returned", 0, built))

\* SlackClient::get up to its first suspension.
ClientGet(method_relative_uri, params) ==
    /\ LET full_uri ==
               create_url_with_params(create_method_uri_path(method_relative_uri), params)
       IN  Dispatch("client_get", 0, <<method_relative_uri, params>>,
                    body(Request_get(full_uri), Body_empty))
    /\ UNCHANGED <<creds, sessions, opened>>

\* SlackClientSession::get up to its first suspension.
SessionGet(s, method_relative_uri, params) ==
    /\ LET full_uri ==
               create_url_with_params(create_method_uri_path(method_relative_uri), params)
       IN  Dispatch("get", s, <<method_relative_uri, params>>,
                    body(setup_token_auth_header(s, Request_get(full_uri)), Body_empty))
    /\ UNCHANGED <<creds, sessions, opened>>

\* Variant: the serialization error is dropped and an empty body is sent.
SessionPostSendsAnyway(s, method_relative_uri, request) ==
    /\ LET full_uri == create_url(create_method_uri_path(method_relative_uri))
           post_json == serde_json_to_string(request)
       IN  Dispatch("post", s, <<method_relative_uri, request>>,
                    body(header(setup_token_auth_header(s, Request_get(full_uri)),
                                "content-type", APPLICATION_JSON),
                         IF post_json.ok THEN post_json.value ELSE <<"json", <<>> >>))
    /\ UNCHANGED <<creds, sessions, opened>>

\* SlackClientSession::post up to its first suspension.
SessionPost(s, method_relative_uri, request) ==
    /\ LET full_uri == create_url(create_method_uri_path(method_relative_uri))
           post_json == serde_json_to_string(request)
       IN  IF ~post_json.ok
           THEN /\ calls' = Append(calls,
                       Frame("post", s, <<method_relative_uri, request>>,
                             "returned", 0, post_json))
                /\ wire' = wire
           ELSE Dispatch("post", s, <<method_relative_uri, request>>,
                         body(header(setup_token_auth_header(s, Request_get(full_uri)),
                                     "content-type", APPLICATION_JSON),
                              post_json.value))
    /\ UNCHANGED <<creds, sessions, opened>>

\* The values of the headers of a request that have a name.
HeaderValues(request, name) ==
    {request.headers[i][2] :
        i \in {j \in 1..Len(request.headers) : request.headers[j][1] = name}}

\* What the server saw of the request it answers.
AuthorizationOf(request) ==
    LET vs == HeaderValues(request, "authorization")
    IN  IF vs = {} THEN None ELSE Some(CHOOSE v \in vs : TRUE)

\* self.connector.request(request).await? yields a response: the call goes on
\* to hyper::body::aggregate(http_res).
RequestOk(c, status) ==
    /\ calls[c].pc = "awaiting_response"
    /\ calls' = [calls EXCEPT ![c].pc = "awaiting_body",
                              ![c].http_res = [status |-> status]]
    /\ UNCHANGED <<creds, sessions, opened, wire>>

\* Variant: a failed request is handed to the connector once more.
RequestFailsRetrying(c) ==
    /\ calls[c].pc = "awaiting_response"
    /\ IF Len(wire) < Len(calls) + 1
       THEN /\ wire' = Append(wire, [call |-> c, request |-> wire[calls[c].req].request])
            /\ calls' = [calls EXCEPT ![c].req = Len(wire) + 1]
       ELSE /\ wire' = wire
            /\ calls' = [calls EXCEPT ![c].pc = "returned", ![c].result = Err("transport")]
    /\ UNCHANGED <<creds, sessions, opened>>

\* self.connector.request(request).await? fails: the error is returned.
RequestFails(c) ==
    /\ calls[c].pc = "awaiting_response"
    /\ calls' = [calls EXCEPT ![c].pc = "returned", ![c].result = Err("transport")]
    /\ UNCHANGED <<creds, sessions, opened, wire>>

\* hyper::body::aggregate(http_res).await? fails: the error is returned.
AggregateFails(c) ==
    /\ calls[c].pc = "awaiting_body"
    /\ calls' = [calls EXCEPT ![c].pc = "returned", ![c].result = Err("transport")]
    /\ UNCHANGED <<creds, sessions, opened, wire>>

\* The body the server sends in answer to a request: text of one of the
\* classes, which (when it is JSON of the response type) names the
\* authorization the server answered.
ResponseBody(request, class) ==
    [class |-> class, data |-> [authorized_as |-> AuthorizationOf(request)]]

\* Variant: a body that cannot be decoded gives a default value.
AggregateOkOrDefault(c, class) ==
    /\ calls[c].pc = "awaiting_body"
    /\ LET http_body == ResponseBody(wire[calls[c].req].request, class)
           decoded == serde_json_from_reader(http_body)
       IN  calls' = [calls EXCEPT
               ![c].pc = "returned",
               ![c].http_body = http_body,
               ![c].result = IF decoded.ok THEN decoded
                             ELSE Ok([authorized_as |-> None])]
    /\ UNCHANGED <<creds, sessions, opened, wire>>

\* Variant: a status of 400 or more is turned into an error.
AggregateOkChecksStatus(c, class) ==
    /\ calls[c].pc = "awaiting_body"
    /\ LET http_body == ResponseBody(wire[calls[c].req].request, class)
       IN  calls' = [calls EXCEPT
               ![c].pc = "returned",
               ![c].http_body = http_body,
               ![c].result = IF calls[c].http_res.status >= 400
                             THEN Err("status")
                             ELSE serde_json_from_reader(http_body)]
    /\ UNCHANGED <<creds, sessions, opened, wire>>

\* The body is buffered and decoded; the call returns Ok(decoded_body) or the
\* decoding error. The status of http_res is not read.
AggregateOk(c, class) ==
    /\ calls[c].pc = "awaiting_body"
    /\ LET http_body == ResponseBody(wire[calls[c].req].request, class)
       IN  calls' = [calls EXCEPT
               ![c].pc = "returned",
               ![c].http_body = http_body,
               ![c].result = serde_json_from_reader(http_body)]
    /\ UNCHANGED <<creds, sessions, opened, wire>>

\* Variant: the session is given a token of its own making.
open_session_default_token(owner) ==
    /\ creds[owner] # Dropped
    /\ sessions' = Append(sessions, [client |-> "client",
                                     token |-> SlackApiToken(<<>>, None, None)])
    /\ opened' = Append(opened, creds[owner].value)
    /\ UNCHANGED <<creds, calls, wire>>

\* SlackClient::open_session
open_session(owner) ==
    /\ creds[owner] # Dropped
    /\ sessions' = Append(sessions, [client |-> "client", token |-> clone(creds[owner])])
    /\ opened' = Append(opened, creds[owner].value)
    /\ UNCHANGED <<creds, calls, wire>>

\* The caller replaces its own credential, once, by one with another token
\* value.
ChangeCredential(owner) ==
    /\ creds[owner] = InitialCredential(owner)
    /\ creds' = [creds EXCEPT ![owner] =
                     SlackApiToken(ReplacementValue(owner), @.workspace_id, @.scope)]
    /\ UNCHANGED <<sessions, opened, calls, wire>>

\* The caller's credential goes out of scope.
DropCredential(owner) ==
    /\ creds[owner] # Dropped
    /\ creds' = [creds EXCEPT ![owner] = Dropped]
    /\ UNCHANGED <<sessions, opened, calls, wire>>

\* SlackClient::new(), and the caller's two credentials.
Init ==
    /\ creds = [o \in Owners |-> InitialCredential(o)]
    /\ sessions = <<>>
    /\ opened = <<>>
    /\ calls = <<>>
    /\ wire = <<>>
    /\ u_pc = "idle"
    /\ u_method = <<>>
    /\ u_params = <<>>
    /\ u_plain = NoUri
    /\ u_with = NoUri

\* The steps of the calls in flight: the connector answers or fails.
Exchange ==
    \/ \E c \in 1..Len(calls), st \in StatusCodes :
           RequestOk(c, st) /\ UNCHANGED urlVars
    \/ \E c \in 1..Len(calls) : RequestFails(c) /\ UNCHANGED urlVars
    \/ \E c \in 1..Len(calls) : AggregateFails(c) /\ UNCHANGED urlVars
    \/ \E c \in 1..Len(calls), cl \in BodyClasses :
           AggregateOk(c, cl) /\ UNCHANGED urlVars

Next ==
    \/ \E o \in Owners :
           Len(sessions) < MaxSessions /\ open_session(o) /\ UNCHANGED urlVars
    \/ \E o \in Owners : ChangeCredential(o) /\ UNCHANGED urlVars
    \/ \E o \in Owners :
           DropCredential(o) /\ UNCHANGED urlVars
    \/ \E in \in GetInputs :
           Len(calls) < MaxCalls /\ ClientGet(in[1], in[2]) /\ UNCHANGED urlVars
    \/ \E s \in 1..Len(sessions), in \in GetInputs :
           Len(calls) < MaxCalls /\ SessionGet(s, in[1], in[2]) /\ UNCHANGED urlVars
    \/ \E s \in 1..Len(sessions), in \in PostInputs :
           Len(calls) < MaxCalls /\ SessionPost(s, in[1], in[2]) /\ UNCHANGED urlVars
    \/ Exchange

Spec == Init /\ [][Next]_vars

\* Concurrent use: every credential opens one session (the first credential
\* the first), and the sessions issue calls that are in flight together.
NextConc ==
    \/ \E o \in Owners :
           o = Len(sessions) + 1 /\ open_session(o) /\ UNCHANGED urlVars
    \/ \E s \in 1..Len(sessions), in \in GetInputs :
           Len(calls) < MaxConcCalls /\ SessionGet(s, in[1], in[2]) /\ UNCHANGED urlVars
    \/ \E s \in 1..Len(sessions), in \in PostInputs :
           Len(calls) < MaxConcCalls /\ SessionPost(s, in[1], in[2]) /\ UNCHANGED urlVars
    \/ Exchange

SpecConc == Init /\ [][NextConc]_vars

\* ------------------------------------------------------------ URL claims
AllAbsent(params) == \A i \in 1..Len(params) : ~params[i][2].some

\* C3: for a parameter sequence that is empty or holds only absent values,
\* create_url_with_params returns the same URL as create_url: no query string
\* and no trailing bare '?'.
C3_NoParamsSameUrl ==
    (u_pc = "done" /\ AllAbsent(u_params)) =>
        /\ u_with = u_plain
        /\ ~u_with.query.some
        /\ uri_to_string(u_with)[Len(uri_to_string(u_with))] # "?"

\* The subsequence of the pairs whose value is present, in input order.
PresentPairs(params) ==
    LET idx == {i \in 1..Len(params) : params[i][2].some}
        RECURSIVE Take(_)
        Take(i) ==
            IF i > Len(params) THEN <<>>
            ELSE IF i \in idx THEN <<<<params[i][1], params[i][2].val>>>> \o Take(i + 1)
            ELSE Take(i + 1)
    IN  Take(1)

\* C4: with at least one present value, decoding the query string of the
\* built URL gives exactly the present pairs, in input order, absent pairs
\* left out, repeated keys repeated, every key and value decoded to itself.
C4_QueryRoundTrip ==
    (u_pc = "done" /\ ~AllAbsent(u_params)) =>
        /\ u_with.query.some
        /\ form_urlencoded_parse(u_with.query.val) = PresentPairs(u_params)
        /\ u_with.path = u_plain.path

C4_Witness ==
    /\ u_pc = "done"
    /\ Len(u_params) = 2
    /\ u_params[1] = << <<"a"," ","b">>, None >>
    /\ u_params[2] = << <<"=">>, Some(<<"&","a","=">>) >>
    /\ u_with.query = Some(<<"%","3","D","=","%","2","6","a","%","3","D">>)

\* ------------------------------------------------------------ protocol claims
\* The calls that handed a request to the connector, and that request.
Dispatched == {c \in 1..Len(calls) : calls[c].req # 0}
RequestOf(c) == wire[calls[c].req].request
SessionCalls == {c \in 1..Len(calls) : calls[c].session # 0}
Returned == {c \in 1..Len(calls) : calls[c].pc = "returned"}

\* C1: every request a session's get or post hands to the connector carries
\* exactly one Authorization header, whose value is "Bearer " followed by the
\* unaltered token string of the credential the session was opened with.
C1_BearerHeader ==
    \A c \in Dispatched \cap SessionCalls :
        HeaderValues(RequestOf(c), "authorization") = {BEARER \o opened[calls[c].session]}

C1_Witness ==
    \E c \in Dispatched \cap SessionCalls :
        /\ calls[c].kind = "post"
        /\ <<"authorization", BEARER \o <<"b","2">> >> = RequestOf(c).headers[1]

\* C2: every request dispatched by post is an HTTP POST carrying the JSON
\* body and content-type: application/json; every request dispatched by get
\* is an HTTP GET with an empty body.
C2_PostVerb ==
    \A c \in Dispatched :
        IF calls[c].kind = "post"
        THEN /\ RequestOf(c).method = "POST"
             /\ RequestOf(c).body = <<"json", calls[c].arg[2].text>>
             /\ HeaderValues(RequestOf(c), "content-type") = {APPLICATION_JSON}
        ELSE /\ RequestOf(c).method = "GET"
             /\ RequestOf(c).body = Body_empty

\* C5: a post whose request body cannot be serialized returns the
\* serialization error and hands no request to the connector.
C5_SerializeErrorBeforeIO ==
    \A c \in 1..Len(calls) :
        (calls[c].kind = "post" /\ ~calls[c].arg[2].serializable) =>
            /\ calls[c].pc = "returned"
            /\ calls[c].result = Err("serialize")
            /\ calls[c].req = 0
            /\ \A i \in 1..Len(wire) : wire[i].call # c

C5_Witness ==
    \E c \in 1..Len(calls) :
        /\ calls[c].kind = "post"
        /\ ~calls[c].arg[2].serializable
        /\ calls[c].result = Err("serialize")
        /\ wire = <<>>

\* C6: a call whose response body is not JSON, or is JSON of another shape,
\* returns an error and never an Ok value.
C6_DecodeError ==
    \A c \in Returned :
        (calls[c].http_body # NoResponse /\ calls[c].http_body.class # "json_of_type") =>
            (~calls[c].result.ok /\ calls[c].result = Err("decode"))

C6_Witness ==
    /\ \E c \in Returned :
           /\ calls[c].http_body # NoResponse
           /\ calls[c].http_body.class = "not_json"
           /\ calls[c].result = Err("decode")
           /\ calls[c].kind = "get"

\* C7: the outcome does not depend on the status code: for every status a
\* body that is JSON of the response type is returned as Ok, and two
\* responses with the same body give the same result whatever their status.
C7_StatusIgnored ==
    /\ \A c \in Returned :
           (calls[c].http_body # NoResponse /\ calls[c].http_body.class = "json_of_type") =>
               calls[c].result = Ok(calls[c].http_body.data)
    /\ \A c1, c2 \in Returned :
           (calls[c1].http_body # NoResponse /\ calls[c1].http_body = calls[c2].http_body) =>
               calls[c1].result = calls[c2].result

C7_Witness ==
    \E c1, c2 \in Returned :
        /\ calls[c1].http_body # NoResponse
        /\ calls[c1].http_body = calls[c2].http_body
        /\ calls[c1].http_res.status = 200
        /\ calls[c2].http_res.status = 500
        /\ calls[c2].result.ok

\* C8: with two sessions opened from different credentials and their calls
\* in flight together, every request carries the Authorization header of the
\* session that issued it, never the other session's token, and the value a
\* call returns is the answer to its own request.
C8_NoCrossContamination ==
    \A c \in Dispatched :
        /\ AuthorizationOf(RequestOf(c)) = Some(BEARER \o opened[calls[c].session])
        /\ \A s \in 1..Len(sessions) :
               s # calls[c].session =>
                   AuthorizationOf(RequestOf(c)) # Some(BEARER \o opened[s])
        /\ (c \in Returned /\ calls[c].result.ok) =>
               calls[c].result.value.authorized_as
                   = Some(BEARER \o opened[calls[c].session])

C8_Witness ==
    \E c1, c2 \in Dispatched :
        /\ calls[c1].session = 1 /\ calls[c2].session = 2
        /\ calls[c1].pc = "awaiting_body" /\ calls[c2].pc = "awaiting_response"
        /\ AuthorizationOf(RequestOf(c1)) # AuthorizationOf(RequestOf(c2))

\* The requests a call handed to the connector.
RequestsOf(c) == {i \in 1..Len(wire) : wire[i].call = c}

\* C9: no retries: each call hands at most one request to the connector, and
\* a call that has returned an error has handed over no second one.
C9_NoRetry ==
    /\ \A c \in 1..Len(calls) :
           /\ Cardinality(RequestsOf(c)) <= 1
           /\ RequestsOf(c) = IF calls[c].req = 0 THEN {} ELSE {calls[c].req}
    /\ \A i \in 1..Len(wire) : wire[i].call \in 1..Len(calls)

C9_Witness ==
    \E c \in Returned :
        /\ calls[c].result = Err("transport")
        /\ Cardinality(RequestsOf(c)) = 1

\* C10: opening a session copies the credential: the step dispatches nothing
\* and leaves the caller's credential as it was, no later step (a change or
\* the disposal of the caller's credential included) changes a session's
\* token, and every request of a session carries the token value the
\* credential had when the session was opened.
C10_SessionOwnsItsToken ==
    [][ /\ Len(sessions') > Len(sessions) =>
              /\ creds' = creds
              /\ wire' = wire
              /\ calls' = calls
              /\ \E o \in Owners : sessions'[Len(sessions')].token = creds[o]
        /\ \A s \in 1..Len(sessions) : sessions'[s] = sessions[s]
        /\ \A s \in 1..Len(sessions') : sessions'[s].token.value = opened'[s]
        /\ \A i \in 1..Len(wire') :
              calls'[wire'[i].call].session # 0 =>
                  AuthorizationOf(wire'[i].request)
                      = Some(BEARER \o opened'[calls'[wire'[i].call].session])
      ]_vars

C10_Witness ==
    /\ \E c \in Dispatched \cap SessionCalls :
           AuthorizationOf(RequestOf(c)) = Some(BEARER \o <<"a","2">>)
    /\ \A o \in Owners : creds[o] # InitialCredential(o)
    /\ \A o \in Owners : creds[o] = Dropped \/ creds[o].value # <<"a","2">>
====
